---- MODULE Spec2Model ----
(***************************************************************************)
(* The audit engine of yarn.build: ProjectAuditor, WorkspaceAuditor,       *)
(* FreshnessCatalog, FreshnessDetector and ReportInspector.                *)
(*                                                                         *)
(* Scheduling.  The code runs on one JavaScript thread.  The only place a  *)
(* unit audit waits for the outside world is the file-system scan of       *)
(* FreshnessDetector.isFresh; every other await (a cache hit, the return   *)
(* of a nested _auditDependencyWorkspace) is resumed from the microtask    *)
(* queue, which is drained before the next I/O completion is delivered.    *)
(* Between two I/O completions the audits only read the catalog, so the    *)
(* order of their microtasks cannot be observed.  One step of an audit is  *)
(* therefore: a scan completes, the verdict is stored in the catalog, and  *)
(* the audit runs on until it starts its next scan or returns.             *)
(***************************************************************************)
EXTENDS Integers, Sequences, FiniteSets, TLC

\* Bound of the model: the number of dependency descriptors in the project.
MaxDescriptors == 3

\* project.topLevelWorkspace (by its relativeCwd) and the other workspaces.
topLevelWorkspace == "."
Units == {"a", "b", "c"}
\* project.workspaces, in the order the project enumerates them.
workspaces == <<topLevelWorkspace, "a", "b", "c">>
\* A package that is no workspace of the project.
External == "ext"
\* Modification times and clock readings.
Times == {0, 1}
\* new Date().getTime(): the latest instant of the model.
Now == 1
\* In place of a modification time: the source folder cannot be read, and
\* xfs.readdirPromise rejects.
Unreadable == -1

\* The values of a field declared `boolean | undefined`.
Undefined == "undefined"
Bool(b) == IF b THEN "true" ELSE "false"

VARIABLES
  dependencies,   \* workspace.dependencies: per workspace, the idents its descriptors name
  mtime,          \* per workspace, the latest mtime under its source folder
  previousState,  \* FreshnessCatalog._previousState: logged lastModified per workspace
  targets,        \* ProjectAuditor._targets
  sequential,     \* AuditOptions.sequential
  catalog,        \* FreshnessCatalog._catalog
  oracleCalls,    \* per workspace, how often FreshnessDetector.isFresh was invoked
  pc,             \* position of ProjectAuditor.audit and of its caller
  next,           \* index of the loop ProjectAuditor.audit is in
  pendingAudits,  \* ProjectAuditor.audit: the keys of pendingAudits, in insertion order
  audits,         \* per started workspace, the state of its WorkspaceAuditor.audit call
  reports,        \* ProjectAuditor.audit: the keys of reports, in insertion order
  instructions    \* what ReportInspector.unroll returned

vars == <<dependencies, mtime, previousState, targets, sequential, catalog,
          oracleCalls, pc, next, pendingAudits, audits, reports, instructions>>

inputs == <<dependencies, mtime, previousState, targets, sequential>>

-----------------------------------------------------------------------------
(* Small helpers on sequences and Maps. *)

Range(s) == {s[k] : k \in 1..Len(s)}

\* Array.prototype.includes
Includes(s, x) == x \in Range(s)

\* Map.prototype.set on a Map kept as the sequence of its entries: an existing
\* key keeps its position and gets the new value, a new key is appended.
MapSet(m, k, v) ==
  IF \E j \in 1..Len(m) : m[j].key = k
    THEN [j \in 1..Len(m) |-> IF m[j].key = k THEN [key |-> k, value |-> v] ELSE m[j]]
    ELSE Append(m, [key |-> k, value |-> v])

\* A Descriptor object of workspace w: the k-th entry of w.dependencies.
Descriptor(w, k) == <<w, k>>

\* project.tryWorkspaceByDescriptor
tryWorkspaceByDescriptor(deps, d) ==
  IF deps[d[1]][d[2]] \in Units THEN deps[d[1]][d[2]] ELSE "null"

-----------------------------------------------------------------------------
(* FreshnessDetector and FreshnessCatalog *)

\* FreshnessDetector.isFresh: the scanned time equals the reference time.
DetectorIsFresh(timeSource, lastModified) ==
  LET changeAge == lastModified - timeSource IN changeAge = 0

\* FreshnessCatalog.isFresh, lines 39-43: the reference time for workspace w.
LastModified(log, w) == IF w \in DOMAIN log THEN log[w] ELSE Now

\* FreshnessCatalog.wasChecked
wasChecked(cat, w) == w \in DOMAIN cat

\* A cache hit answers "fresh" whatever was stored.
CachedAnswerFresh(cat, w) == TRUE

\* FreshnessCatalog.isFresh, lines 34-36: the answer on a cache hit.
CachedAnswer(cat, w) == cat[w]

\* The catalog forgets to store the verdict.
CatalogSetNothing(cat, w, v) == cat

\* FreshnessCatalog.isFresh, line 48: _catalog.set
CatalogSet(cat, w, v) == [x \in DOMAIN cat \cup {w} |-> IF x = w THEN v ELSE cat[x]]

-----------------------------------------------------------------------------
(* WorkspaceReport and WorkspaceAuditor *)

\* new WorkspaceReport(workspace)
WorkspaceReport(w) ==
  [workspace |-> w, isFresh |-> Undefined, loopsBackToParent |-> Undefined,
   dependenciesWereFresh |-> Undefined, filesWereFresh |-> Undefined,
   fileFreshnessFromCache |-> Undefined, dependencies |-> <<>>]

(* The state of one WorkspaceAuditor.audit call.                           *)
(*   nodes : every WorkspaceReport the call created, by its position:      *)
(*           <<>> is the root report, Append(n, k) the report created for  *)
(*           the k-th descriptor of the workspace of report n;             *)
(*   stack : the active _auditDependencyWorkspace calls, the innermost     *)
(*           last; each is at its descriptor idx and waits at `at`:        *)
(*           "own" (line 110), "rec" (line 142) or "dep" (line 161);       *)
(*   path  : the `path` array shared by these calls;                       *)
(*   ctl   : what happens next: "call" freshnessCatalog.isFresh(arg),      *)
(*           "resume" with `value` after that call, "loop" (line 119),     *)
(*           "return" `value` from the innermost call, "scanning" (the     *)
(*           detector's scan of arg is in flight), "resolved";             *)
(*   answers : the <<workspace, boolean>> pairs freshnessCatalog.isFresh   *)
(*           has returned to this call;                                    *)
(*   queries : how often this call has called freshnessCatalog.isFresh.    *)

\* The innermost active call.
TopFrame(t) == t.stack[Len(t.stack)]

SetTop(t, f) == [t EXCEPT !.stack[Len(t.stack)] = f]

\* _auditDependencyWorkspace, lines 105-110: the call for workspace w with
\* report n begins.
Enter(t, cat, w, n) ==
  [t EXCEPT !.nodes[n].isFresh = "true",
            !.nodes[n].fileFreshnessFromCache = Bool(wasChecked(cat, w)),
            !.stack = Append(t.stack, [workspace |-> w, report |-> n, idx |-> 0, at |-> "own"]),
            !.ctl = "call", !.arg = w]

\* WorkspaceAuditor.audit, lines 77-84
NewAudit(cat, w) ==
  Enter([nodes |-> (<<>> :> WorkspaceReport(w)), stack |-> <<>>, path |-> <<>>,
         ctl |-> "call", arg |-> w, value |-> FALSE, answers |-> {}, queries |-> 0],
        cat, w, <<>>)

\* FreshnessCatalog.isFresh up to its await: a hit answers at once, a miss
\* starts the detector.
CallIsFresh(t, cat) ==
  IF wasChecked(cat, t.arg)
    THEN [t EXCEPT !.ctl = "resume", !.value = CachedAnswer(cat, t.arg),
                   !.answers = @ \cup {<<t.arg, CachedAnswer(cat, t.arg)>>},
                   !.queries = @ + 1]
    ELSE [t EXCEPT !.ctl = "scanning", !.queries = @ + 1]

\* The verdict of the dependency's audit is not passed on.
FoldDependencyDropped(dependenciesWereFresh, isDependencyFresh) == dependenciesWereFresh

\* Lines 152-157: a dependency whose audit returned false marks the report
\* of the workspace that depends on it.
FoldDependency(dependenciesWereFresh, isDependencyFresh) ==
  IF ~isDependencyFresh THEN "false" ELSE dependenciesWereFresh

\* The test of line 163 is inverted.
FoldFilesInverted(dependenciesWereFresh, isFresh) ==
  IF isFresh THEN "false" ELSE dependenciesWereFresh

\* Lines 163-167: so does a dependency whose own files are not fresh.
FoldFiles(dependenciesWereFresh, isFresh) ==
  IF ~isFresh THEN "false" ELSE dependenciesWereFresh

\* Line 172 without the dependencies.
AuditVerdictFilesOnly(report) == report.filesWereFresh = "true"

\* Line 172 with || in place of &&.
AuditVerdictEither(report) ==
  report.dependenciesWereFresh = "true" \/ report.filesWereFresh = "true"

\* Line 172: the value _auditDependencyWorkspace returns.
AuditVerdict(report) ==
  report.dependenciesWereFresh = "true" /\ report.filesWereFresh = "true"

\* Lines 111-118 (own files) and 162-167 (the dependency's files): the code
\* after an awaited freshnessCatalog.isFresh.
Resume(t) ==
  LET f == TopFrame(t)
      n == f.report
      c == Append(n, f.idx)
  IN IF f.at = "own"
       THEN [SetTop(t, [f EXCEPT !.idx = 1]) EXCEPT
               !.nodes[n].filesWereFresh = Bool(t.value),
               !.nodes[n].isFresh = IF t.value THEN @ ELSE "false",
               !.nodes[n].dependenciesWereFresh = "true",
               !.ctl = "loop"]
       ELSE [SetTop(t, [f EXCEPT !.idx = @ + 1]) EXCEPT
               !.nodes[c].filesWereFresh = Bool(t.value),
               !.nodes[c].isFresh = IF t.value THEN @ ELSE "false",
               !.nodes[n].dependenciesWereFresh = FoldFiles(@, t.value),
               !.ctl = "loop"]

\* Line 130: the key under which a dependency's report is stored in the
\* report of workspace w.
DependencyKey(w, dependencyWorkspace) == w

\* Any descriptor of a workspace that a descriptor on the path belongs to
\* counts as being on the path.
LoopsBackSameWorkspace(path, descriptor) ==
  \E j \in 1..Len(path) : path[j][1] = descriptor[1]

\* The search of the path starts one entry too late.
LoopsBackSkipFirst(path, descriptor) == Includes(SubSeq(path, 2, Len(path)), descriptor)

\* Line 135: is the descriptor on the path being traversed?
LoopsBack(path, descriptor) == Includes(path, descriptor)

\* The cut descriptor counts as a dependency that is not fresh.
CutCycleStale(t, c) ==
  [SetTop(t, [TopFrame(t) EXCEPT !.idx = @ + 1]) EXCEPT
     !.nodes[c].loopsBackToParent = "true",
     !.nodes[TopFrame(t).report].dependenciesWereFresh = "false"]

\* Lines 135-138: the descriptor is on the path; its report c is flagged
\* and the loop continues with the next descriptor.
CutCycle(t, c) ==
  [SetTop(t, [TopFrame(t) EXCEPT !.idx = @ + 1]) EXCEPT
     !.nodes[c].loopsBackToParent = "true"]

\* Lines 119-148: one turn of the loop over workspace.dependencies, or the
\* return of line 172 when the descriptors are exhausted.
Loop(t, cat, deps) ==
  LET f == TopFrame(t)
      w == f.workspace
      n == f.report
      r == t.nodes[n]
  IN IF f.idx > Len(deps[w])
       THEN [t EXCEPT !.ctl = "return", !.value = AuditVerdict(r)]
       ELSE
         LET descriptor == Descriptor(w, f.idx)
             dependencyWorkspace == tryWorkspaceByDescriptor(deps, descriptor)
             c == Append(n, f.idx)
             made == [t EXCEPT !.nodes = @ @@ (c :> WorkspaceReport(dependencyWorkspace))]
             stored == [made EXCEPT !.nodes[n].dependencies =
                          MapSet(@, DependencyKey(w, dependencyWorkspace), c)]
         IN IF dependencyWorkspace = "null"
              THEN SetTop(t, [f EXCEPT !.idx = @ + 1])
              ELSE IF LoopsBack(t.path, descriptor)
                THEN CutCycle(stored, c)
                ELSE Enter([SetTop(stored, [f EXCEPT !.at = "rec"]) EXCEPT
                              !.nodes[c].loopsBackToParent = "false",
                              !.path = Append(@, descriptor)],
                           cat, dependencyWorkspace, c)

\* The path keeps the descriptor of the call that returned.
PathPopNothing(path) == path

\* Line 148: path.pop()
PathPop(path) == SubSeq(path, 1, Len(path) - 1)

\* Line 172 returns `value`: to WorkspaceAuditor.audit (lines 85-87) from the
\* outermost call, else to the caller's lines 148-161.
Return(t, cat) ==
  LET popped == [t EXCEPT !.stack = SubSeq(@, 1, Len(@) - 1)]
  IN IF Len(popped.stack) = 0
       THEN [popped EXCEPT !.nodes[<<>>].isFresh = Bool(t.value), !.ctl = "resolved"]
       ELSE
         LET f == TopFrame(popped)
             n == f.report
             c == Append(n, f.idx)
             dependencyWorkspace == popped.nodes[c].workspace
         IN [SetTop(popped, [f EXCEPT !.at = "dep"]) EXCEPT
               !.path = PathPop(@),
               !.nodes[c].dependenciesWereFresh = Bool(t.value),
               !.nodes[c].isFresh = IF t.value THEN @ ELSE "false",
               !.nodes[n].dependenciesWereFresh = FoldDependency(@, t.value),
               !.nodes[c].fileFreshnessFromCache = Bool(wasChecked(cat, dependencyWorkspace)),
               !.ctl = "call", !.arg = dependencyWorkspace]

\* The code of an audit between two awaits.
Step(t, cat, deps) ==
  CASE t.ctl = "call"   -> CallIsFresh(t, cat)
    [] t.ctl = "resume" -> Resume(t)
    [] t.ctl = "loop"   -> Loop(t, cat, deps)
    [] t.ctl = "return" -> Return(t, cat)

\* An audit runs on until it waits for a scan or has returned.  (Drawing the
\* next state from a singleton set makes TLC evaluate each step only once.)
RECURSIVE Run(_, _, _)
Run(t, cat, deps) ==
  IF t.ctl \in {"scanning", "resolved"} THEN t
  ELSE CHOOSE r \in {Run(s, cat, deps) : s \in {Step(t, cat, deps)}} : TRUE

-----------------------------------------------------------------------------
(* ReportInspector *)

\* ReportInspector._unrollWorkspaceReport on report n of an audit's nodes:
\* the instructions it pushes.
RECURSIVE unrollWorkspaceReport(_, _)
RECURSIVE unrollDependencies(_, _, _)
unrollDependencies(nodes, m, j) ==
  IF j > Len(m) THEN <<>>
  ELSE unrollWorkspaceReport(nodes, m[j].value) \o unrollDependencies(nodes, m, j + 1)

\* The report's workspace is pushed when it is not fresh, and the reports of
\* its dependencies are never entered.
unrollWorkspaceReportFlat(nodes, n) ==
  IF nodes[n].loopsBackToParent = "true" \/ nodes[n].isFresh = "true"
    THEN <<>> ELSE <<nodes[n].workspace>>

unrollWorkspaceReport(nodes, n) ==
  LET workspaceReport == nodes[n]
  IN IF workspaceReport.loopsBackToParent = "true" THEN <<>>
     ELSE IF workspaceReport.isFresh = "true" THEN <<>>
     ELSE IF workspaceReport.dependenciesWereFresh # "true"
       THEN <<workspaceReport.workspace>>
            \o unrollDependencies(nodes, workspaceReport.dependencies, 1)
     ELSE IF workspaceReport.filesWereFresh # "true"
       THEN <<workspaceReport.workspace>>
     ELSE <<>>

\* ReportInspector.unroll over the ProjectReport
RECURSIVE unroll(_, _, _)
unroll(rs, as, j) ==
  IF j > Len(rs) THEN <<>>
  ELSE unrollWorkspaceReport(as[rs[j]].nodes, <<>>) \o unroll(rs, as, j + 1)

-----------------------------------------------------------------------------
(* The inputs of a run *)

\* The workspaces a workspace's descriptors can name: distinct idents, since
\* workspace.dependencies is keyed by ident.
DescriptorLists ==
  {s \in UNION {[1..k -> Units] : k \in 0..MaxDescriptors} :
     \A x, y \in 1..Len(s) : x # y => s[x] # s[y]}

\* Workspace "a" also depends on a package from the registry, listed first.
Externals(w) == IF w = "a" THEN <<External>> ELSE <<>>

RECURSIVE SumLen(_, _)
SumLen(g, S) ==
  IF S = {} THEN 0
  ELSE LET w == CHOOSE x \in S : TRUE IN Len(g[w]) + SumLen(g, S \ {w})

\* The dependency graphs of the project: at most MaxDescriptors descriptors
\* name workspaces; the top level workspace has no dependencies.
DependencyGraphs ==
  {[w \in Units \cup {topLevelWorkspace} |->
      IF w = topLevelWorkspace THEN <<>> ELSE Externals(w) \o g[w]] :
     g \in {h \in [Units -> DescriptorLists] : SumLen(h, Units) <= MaxDescriptors}}

\* The previous run's log: "a" and "b" were built at time 0, "c" has been
\* added to the project since and has no entry.
RunLog == [w \in {"a", "b"} |-> 0]

\* The targets a ProjectAuditor is constructed with: none, one workspace, or
\* two workspaces and the top level workspace.
TargetLists == {<<>>, <<"a">>, <<topLevelWorkspace, "a", "b">>}

\* The state after construction, the file system being one of `folders`.
InitWith(folders) ==
  /\ dependencies \in DependencyGraphs
  /\ mtime \in folders
  /\ previousState = RunLog
  /\ targets \in TargetLists
  /\ sequential \in BOOLEAN
  /\ catalog = <<>>
  /\ oracleCalls = [w \in Units |-> 0]
  /\ pc = "start"
  /\ next = 1
  /\ pendingAudits = <<>>
  /\ audits = <<>>
  /\ reports = <<>>
  /\ instructions = <<>>

\* Every source folder can be read.
Init == InitWith([Units -> Times])

-----------------------------------------------------------------------------
(* ProjectAuditor.audit and its caller *)

\* No scan ever fails.
ScanFailsNever(u) == FALSE

\* FreshnessDetector._getLastModifiedForFolder rejects for workspace u.
ScanFails(u) == mtime[u] = Unreadable

\* FreshnessCatalog.isFresh, lines 38-47: the detector's answer about u.
ScanVerdict(u) == DetectorIsFresh(mtime[u], LastModified(previousState, u))

\* FreshnessCatalog.isFresh, line 49: the awaited call returns isFresh to the
\* audit that waited for the scan.
Answered(a, isFresh) ==
  [a EXCEPT !.ctl = "resume", !.value = isFresh, !.answers = @ \cup {<<a.arg, isFresh>>}]

\* The detector is invoked when an audit starts waiting for a scan.
CountScan(t) ==
  IF t.ctl = "scanning" THEN [oracleCalls EXCEPT ![t.arg] = @ + 1] ELSE oracleCalls

\* Every workspace counts as a target.
IsTargetAlways(ts, w) == TRUE

\* Line 96: this._targets.includes(workspace.relativeCwd)
IsTarget(ts, w) == Includes(ts, w)

\* Lines 91-93: the top level workspace is ignored.
SkipTopLevel ==
  /\ pc = "start" /\ next <= Len(workspaces)
  /\ workspaces[next] = topLevelWorkspace
  /\ next' = next + 1
  /\ UNCHANGED <<inputs, catalog, oracleCalls, pc, pendingAudits, audits, reports, instructions>>

\* Lines 96-98: a workspace that is no target is skipped.
SkipNonTarget ==
  /\ pc = "start" /\ next <= Len(workspaces)
  /\ workspaces[next] # topLevelWorkspace
  /\ ~IsTarget(targets, workspaces[next])
  /\ next' = next + 1
  /\ UNCHANGED <<inputs, catalog, oracleCalls, pc, pendingAudits, audits, reports, instructions>>

\* Lines 101-108: the audit of a target starts and runs up to its first
\* scan; with options.sequential the loop waits for it.
StartAudit ==
  /\ pc = "start" /\ next <= Len(workspaces)
  /\ workspaces[next] # topLevelWorkspace
  /\ IsTarget(targets, workspaces[next])
  /\ \E t \in {Run(NewAudit(catalog, workspaces[next]), catalog, dependencies)} :
        /\ audits' = audits @@ (workspaces[next] :> t)
        /\ oracleCalls' = CountScan(t)
        /\ pendingAudits' = Append(pendingAudits, workspaces[next])
        /\ pc' = IF sequential /\ t.ctl # "resolved" THEN "await" ELSE pc
        /\ next' = IF sequential /\ t.ctl # "resolved" THEN next ELSE next + 1
  /\ UNCHANGED <<inputs, catalog, reports, instructions>>

\* Line 109: the first loop ends.
EndLoop ==
  /\ pc = "start" /\ next > Len(workspaces)
  /\ pc' = "collect" /\ next' = 1
  /\ UNCHANGED <<inputs, catalog, oracleCalls, pendingAudits, audits, reports, instructions>>

\* FreshnessDetector.isFresh returns to FreshnessCatalog.isFresh, lines
\* 47-49, and the audit of workspace w runs on.  The event loop delivers the
\* completion only when the synchronous first loop has ended or waits.
ScanDone(w) ==
  /\ pc \in {"await", "collect", "failed"}
  /\ w \in DOMAIN audits /\ audits[w].ctl = "scanning"
  /\ ~ScanFails(audits[w].arg)
  /\ \E cat \in {CatalogSet(catalog, audits[w].arg, ScanVerdict(audits[w].arg))} :
     \E t \in {Run(Answered(audits[w], ScanVerdict(audits[w].arg)), cat, dependencies)} :
        /\ catalog' = cat
        /\ audits' = [audits EXCEPT ![w] = t]
        /\ oracleCalls' = CountScan(t)
        /\ pc' = IF pc = "await" /\ t.ctl = "resolved" THEN "start" ELSE pc
        /\ next' = IF pc = "await" /\ t.ctl = "resolved" THEN next + 1 ELSE next
  /\ UNCHANGED <<inputs, pendingAudits, reports, instructions>>

\* Lines 111-114: the next pending audit has resolved and its report is kept.
Collect ==
  /\ pc = "collect" /\ next <= Len(pendingAudits)
  /\ audits[pendingAudits[next]].ctl = "resolved"
  /\ reports' = Append(reports, pendingAudits[next])
  /\ next' = next + 1
  /\ UNCHANGED <<inputs, catalog, oracleCalls, pc, pendingAudits, audits, instructions>>

\* Line 116: return reports.
ReturnReports ==
  /\ pc = "collect" /\ next > Len(pendingAudits)
  /\ pc' = "done"
  /\ UNCHANGED <<inputs, catalog, oracleCalls, next, pendingAudits, audits, reports, instructions>>

\* The caller hands the ProjectReport to a ReportInspector and unrolls it.
Unroll ==
  /\ pc = "done"
  /\ instructions' = unroll(reports, audits, 1)
  /\ pc' = "unrolled"
  /\ UNCHANGED <<inputs, catalog, oracleCalls, next, pendingAudits, audits, reports>>

Next ==
  \/ SkipTopLevel
  \/ SkipNonTarget
  \/ StartAudit
  \/ EndLoop
  \/ \E w \in Units : ScanDone(w)
  \/ Collect
  \/ ReturnReports
  \/ Unroll

Spec == Init /\ [][Next]_vars

\* FreshnessDetector.isFresh rejects: the awaits of part_000:47 and of
\* part_002:110, 142 and 161 throw in turn, nothing is stored in the catalog,
\* and the promise of WorkspaceAuditor.audit for w is rejected.  With
\* options.sequential the `await pendingAudit` of line 107 throws as well.
ScanError(w) ==
  /\ pc \in {"await", "collect", "failed"}
  /\ w \in DOMAIN audits /\ audits[w].ctl = "scanning"
  /\ ScanFails(audits[w].arg)
  /\ audits' = [audits EXCEPT ![w].ctl = "rejected"]
  /\ pc' = IF pc = "await" THEN "failed" ELSE pc
  /\ UNCHANGED <<inputs, catalog, oracleCalls, next, pendingAudits, reports, instructions>>

\* Line 112: the awaited pending audit was rejected, and ProjectAuditor.audit
\* throws instead of returning reports.
Throw ==
  /\ pc = "collect" /\ next <= Len(pendingAudits)
  /\ audits[pendingAudits[next]].ctl = "rejected"
  /\ pc' = "failed"
  /\ UNCHANGED <<inputs, catalog, oracleCalls, next, pendingAudits, audits, reports, instructions>>

NextOrError ==
  \/ Next
  \/ \E w \in Units : ScanError(w)
  \/ Throw

\* The runs of two targets in which the source folder of one workspace
\* cannot be read.  Under weak fairness every scan that was started ends and
\* every awaited promise that has settled is resumed.
UnreadableFolders ==
  {m \in [Units -> Times \cup {Unreadable}] :
     Cardinality({u \in Units : m[u] = Unreadable}) = 1}
InitError == InitWith(UnreadableFolders) /\ targets = <<topLevelWorkspace, "a", "b">>
ErrorSpec == InitError /\ [][NextOrError]_vars /\ WF_vars(NextOrError)

\* The runs in which one workspace is audited.  Under weak fairness every
\* scan that was started completes and every awaited promise that has
\* resolved is resumed.
InitOneTarget == Init /\ targets = <<"a">> /\ sequential
OneTargetSpec == InitOneTarget /\ [][Next]_vars /\ WF_vars(Next)

-----------------------------------------------------------------------------
(* Notions the properties below are stated with *)

\* What the Freshness Oracle answers about workspace u in this run.
Verdict(u) == ScanVerdict(u)

\* The workspaces the descriptors of w resolve to.
DirectDependencies(w) == Range(dependencies[w]) \cap Units

\* The workspaces reachable from w through one or more dependency edges.
RECURSIVE ReachableIn(_, _)
ReachableIn(S, k) ==
  IF k = 0 THEN S
  ELSE ReachableIn(S \cup UNION {DirectDependencies(x) : x \in S}, k - 1)
Reachable(w) == ReachableIn(DirectDependencies(w), Cardinality(Units))

\* ProjectAuditor.audit has returned its ProjectReport.
Returned == pc \in {"done", "unrolled"}

\* The report nodes of the audit of target w.
Nodes(w) == audits[w].nodes

\* The workspaces freshnessCatalog.isFresh has answered about, with the answers.
Answers == UNION {audits[w].answers : w \in DOMAIN audits}

-----------------------------------------------------------------------------
(* C1: in a run with sequential = true the Freshness Oracle is invoked at  *)
(* most once per workspace, and every answer FreshnessCatalog.isFresh gave *)
(* about a workspace is the boolean the catalog holds for it, the one the  *)
(* first query stored.                                                     *)
C1_OracleOncePerUnitSequential ==
  sequential =>
    /\ \A u \in Units : oracleCalls[u] <= 1
    /\ \A p \in Answers : wasChecked(catalog, p[1]) /\ catalog[p[1]] = p[2]

\* A sequential run has returned in which a stale workspace was queried by
\* both targets, the second time from the catalog, and scanned once.
C1_Witness ==
  /\ sequential /\ Returned
  /\ \E u \in Units :
       /\ oracleCalls[u] = 1 /\ ~Verdict(u)
       /\ \A w \in {"a", "b"} :
            /\ w \in DOMAIN audits
            /\ \E n \in DOMAIN Nodes(w) :
                 Nodes(w)[n].workspace = u /\ Nodes(w)[n].filesWereFresh = "false"

(* C2: in a run with sequential = false the Freshness Oracle is invoked at *)
(* most once per workspace, whatever the interleaving of the audits.       *)
C2_OracleOncePerUnitConcurrent ==
  ~sequential => \A u \in Units : oracleCalls[u] <= 1

(* C3: for every dependency graph, cycles and self-dependencies included,  *)
(* every started WorkspaceAuditor.audit returns once its scans return; the *)
(* nesting of _auditDependencyWorkspace calls never exceeds the number of  *)
(* descriptors plus one; and a report created for a descriptor has         *)
(* loopsBackToParent = true, and is not descended into, exactly when that  *)
(* descriptor is already on the branch that leads to it.                   *)

\* The descriptors followed from the root report to report n of audit w.
Branch(w, n) ==
  [j \in 1..Len(n) |-> Descriptor(Nodes(w)[SubSeq(n, 1, j - 1)].workspace, n[j])]

\* The report n was created under; a sequence without its last entry.
Parent(n) == SubSeq(n, 1, Len(n) - 1)

\* The descriptor report n was created for.
Via(w, n) == Branch(w, n)[Len(n)]

Resolved(w) == w \in DOMAIN audits /\ audits[w].ctl = "resolved"

C3_LoopsBackOnBranch ==
  \A w \in DOMAIN audits :
    /\ Len(audits[w].stack) <= SumLen(dependencies, Units) + 1
    /\ \A n \in DOMAIN Nodes(w) \ {<<>>} :
         /\ Nodes(w)[n].loopsBackToParent =
              Bool(Includes(Branch(w, Parent(n)), Via(w, n)))
         /\ Nodes(w)[Parent(n)].loopsBackToParent # "true"

C3_CycleSafety ==
  /\ []C3_LoopsBackOnBranch
  /\ \A w \in Units : (w \in DOMAIN audits) ~> Resolved(w)

\* The audit of "a" in the cycle a -> b -> a has returned: the report for b
\* reached again through the cycle is flagged, and nothing lies below it.
C3_Witness ==
  /\ DirectDependencies("a") = {"b"} /\ DirectDependencies("b") = {"a"}
  /\ Resolved("a")
  /\ \E n \in DOMAIN Nodes("a") :
       /\ Len(n) = 3
       /\ Nodes("a")[n].workspace = "b"
       /\ Nodes("a")[n].loopsBackToParent = "true"
       /\ Nodes("a")[Parent(n)].workspace = "a"
       /\ Nodes("a")[Parent(n)].loopsBackToParent = "false"

-----------------------------------------------------------------------------
\* The root report of the audit of target w.
Root(w) == Nodes(w)[<<>>]

\* Workspace u is not fresh: its own files changed, or those of a workspace
\* it depends on, directly or not.
NotFresh(u) == ~Verdict(u) \/ \E v \in Reachable(u) : ~Verdict(v)

\* The positions at which the instructions name workspace u.
Emitted(u) == {j \in 1..Len(instructions) : instructions[j] = u}

(* C4: once the audit of a target A has returned, if the own files of a    *)
(* workspace reachable from A through one or more dependency edges have    *)
(* changed, the root report of A has dependenciesWereFresh = false and     *)
(* isFresh = false.                                                        *)
C4_StalenessPropagates ==
  \A A \in Units :
    Resolved(A) =>
      \A B \in Reachable(A) :
        ~Verdict(B) =>
          /\ Root(A).dependenciesWereFresh = "false"
          /\ Root(A).isFresh = "false"

\* The audit of "a" has returned; the files of "a" and of its dependency "b"
\* are unchanged, and "c", which only "b" depends on, has changed.
C4_Witness ==
  /\ Resolved("a")
  /\ Verdict("a") /\ Verdict("b") /\ ~Verdict("c")
  /\ DirectDependencies("a") = {"b"} /\ "c" \in DirectDependencies("b")
  /\ Root("a").filesWereFresh = "true"
  /\ Root("a").dependenciesWereFresh = "false"

(* C5: after audit and unroll, every workspace that is a target or is      *)
(* reachable from a target, and that is not fresh, is named by at least    *)
(* one instruction.                                                        *)
C5_InstructionsComplete ==
  pc = "unrolled" =>
    \A A \in Range(reports) :
      \A u \in {A} \cup Reachable(A) :
        NotFresh(u) => Emitted(u) # {}

(* C6: when the only target A depends on exactly B and C, in either order, *)
(* B and C depend on nothing, B's files changed and those of A and C did   *)
(* not, the instructions are A, then B; and whenever the root report of a  *)
(* target has dependenciesWereFresh = false, each direct dependency whose  *)
(* own files changed is named after an instruction for the target.         *)
C6_DiamondPolicy ==
  pc = "unrolled" =>
    /\ \A B, C \in Units \ {"a"} :
         ( /\ targets = <<"a">> /\ B # C
           /\ DirectDependencies("a") = {B, C}
           /\ DirectDependencies(B) = {} /\ DirectDependencies(C) = {}
           /\ Verdict("a") /\ ~Verdict(B) /\ Verdict(C) )
         => instructions = <<"a", B>>
    /\ \A A \in Range(reports) :
         Root(A).dependenciesWereFresh = "false" =>
           \A D \in DirectDependencies(A) :
             ~Verdict(D) => \E i \in Emitted(A), j \in Emitted(D) : i < j

(* C7: when the oracle finds every workspace fresh, every root report has  *)
(* isFresh = true and unroll returns no instruction.                       *)
C7_NoOpRun ==
  (pc = "unrolled" /\ \A u \in Units : Verdict(u)) =>
    /\ \A A \in Range(reports) : Root(A).isFresh = "true"
    /\ instructions = <<>>

\* Two targets were audited in a project whose workspaces all are fresh and
\* depend on each other in a cycle.
C7_Witness ==
  /\ pc = "unrolled" /\ \A u \in Units : Verdict(u)
  /\ reports = <<"a", "b">>
  /\ "b" \in DirectDependencies("a") /\ "a" \in DirectDependencies("b")
  /\ \E n \in DOMAIN Nodes("a") : Nodes("a")[n].loopsBackToParent = "true"

(* C8: when the only target A has no dependency inside the project and its *)
(* own files changed, its report has filesWereFresh = false,               *)
(* dependenciesWereFresh = true and isFresh = false, and unroll returns    *)
(* exactly one instruction, for A.                                         *)
C8_OwnFilesOnly ==
  (pc = "unrolled" /\ targets = <<"a">> /\ DirectDependencies("a") = {} /\ ~Verdict("a")) =>
    /\ Root("a").filesWereFresh = "false"
    /\ Root("a").dependenciesWereFresh = "true"
    /\ Root("a").isFresh = "false"
    /\ instructions = <<"a">>

\* Such a run has been unrolled; the only descriptor of "a" names a package
\* outside the project.
C8_Witness ==
  /\ pc = "unrolled" /\ targets = <<"a">> /\ ~Verdict("a")
  /\ dependencies["a"] = <<External>>
  /\ DOMAIN Nodes("a") = {<<>>}
  /\ instructions = <<"a">>

(* C9: when both targets depend on a workspace C whose own files changed,  *)
(* the instructions name C at least twice.                                 *)
C9_DuplicateEmission ==
  pc = "unrolled" =>
    \A C \in Units \ {"a", "b"} :
      ( /\ reports = <<"a", "b">>
        /\ C \in DirectDependencies("a") /\ C \in DirectDependencies("b")
        /\ ~Verdict(C) )
      => Cardinality(Emitted(C)) >= 2

(* C10: a ProjectAuditor constructed without targets audits every          *)
(* workspace: the ProjectReport holds a root report for each workspace     *)
(* other than the top level one.                                           *)
C10_NoTargetsAuditsAll ==
  (Returned /\ targets = <<>>) => Range(reports) = Units

-----------------------------------------------------------------------------
\* No entry occurs twice in sequence s.
Distinct(s) == \A x, y \in 1..Len(s) : x # y => s[x] # s[y]

(* C11: when targets is not empty, the keys of the ProjectReport that      *)
(* ProjectAuditor.audit returns are exactly the workspaces of the project  *)
(* named in targets, without the top level workspace: the top level        *)
(* workspace is no key even when it is a target, and a workspace that is   *)
(* only a dependency of a target is no key.                                *)
C11_TargetedKeys ==
  (Returned /\ targets # <<>>) =>
    /\ Distinct(reports)
    /\ Range(reports) = (Range(targets) \cap Range(workspaces)) \ {topLevelWorkspace}

\* The top level workspace, "a" and "b" were targets; "c" was audited as a
\* dependency of "a" only and is no key of the ProjectReport.
C11_Witness ==
  /\ Returned /\ targets = <<topLevelWorkspace, "a", "b">>
  /\ reports = <<"a", "b">>
  /\ DirectDependencies("a") = {"c"} /\ DirectDependencies("b") = {}
  /\ \E n \in DOMAIN Nodes("a") : Nodes("a")[n].workspace = "c"

-----------------------------------------------------------------------------
\* `await pendingAudit` of ProjectAuditor.audit, line 107: the audit t is
\* awaited to its end, so each scan it starts completes, and its verdict is
\* stored, before any other audit runs.
RECURSIVE Await(_, _, _)
Await(t, cat, deps) ==
  IF t.ctl = "resolved" THEN [audit |-> t, catalog |-> cat]
  ELSE CHOOSE r \in {Await(Run(Answered(t, ScanVerdict(t.arg)), c, deps), c, deps) :
                       c \in {CatalogSet(cat, t.arg, ScanVerdict(t.arg))}} : TRUE

\* ProjectAuditor.audit with options.sequential, lines 87-108, from
\* workspace j on: the audits it leaves behind, by workspace.
RECURSIVE SequentialAudits(_, _, _)
SequentialAudits(j, cat, done) ==
  IF j > Len(workspaces) THEN done
  ELSE IF workspaces[j] = topLevelWorkspace \/ ~IsTarget(targets, workspaces[j])
    THEN SequentialAudits(j + 1, cat, done)
    ELSE CHOOSE r \in {SequentialAudits(j + 1, a.catalog, done @@ (workspaces[j] :> a.audit)) :
                         a \in {Await(Run(NewAudit(cat, workspaces[j]), cat, dependencies),
                                      cat, dependencies)}} : TRUE

\* The run with sequential = true on the inputs of this run.
SequentialRun == SequentialAudits(1, <<>>, <<>>)

\* The fields of a report that C12 compares.
Outcome(report) ==
  [workspace |-> report.workspace, isFresh |-> report.isFresh,
   filesWereFresh |-> report.filesWereFresh,
   dependenciesWereFresh |-> report.dependenciesWereFresh,
   loopsBackToParent |-> report.loopsBackToParent,
   dependencies |-> report.dependencies]

(* C12: the verdicts of the oracle being fixed during a run, a run with    *)
(* sequential = false ends, whatever the interleaving of its audits, with  *)
(* the same report nodes, each with the same isFresh, filesWereFresh,      *)
(* dependenciesWereFresh and loopsBackToParent, and with the same          *)
(* instructions, as the run with sequential = true on the same inputs.     *)
(* (SequentialRun is that run: a run with sequential = true ends with      *)
(* exactly its audits.)                                                    *)
C12_ConcurrentEqualsSequential ==
  Returned =>
    \A run \in {SequentialRun} :
      /\ sequential => \A w \in Range(reports) : audits[w] = run[w]
      /\ ~sequential =>
           /\ Range(reports) = DOMAIN run
           /\ \A w \in Range(reports) :
                /\ DOMAIN Nodes(w) = DOMAIN run[w].nodes
                /\ \A n \in DOMAIN Nodes(w) :
                     Outcome(Nodes(w)[n]) = Outcome(run[w].nodes[n])
           /\ pc = "unrolled" => instructions = unroll(reports, run, 1)

\* A run with sequential = false has been unrolled whose interleaving no
\* sequential run has: a changed workspace was scanned twice, and a report
\* differs from the sequential run's in fileFreshnessFromCache.
C12_Witness ==
  /\ ~sequential /\ pc = "unrolled" /\ instructions # <<>>
  /\ \E u \in Units : oracleCalls[u] = 2 /\ ~Verdict(u)
  /\ \E w \in Range(reports) : \E n \in DOMAIN Nodes(w) :
       Nodes(w)[n].fileFreshnessFromCache # SequentialRun[w].nodes[n].fileFreshnessFromCache

-----------------------------------------------------------------------------
\* The promise of the audit of workspace w was rejected.
Rejected(w) == w \in DOMAIN audits /\ audits[w].ctl = "rejected"

\* The audit of workspace w visits a workspace whose folder cannot be read:
\* w itself or a workspace reachable from it.
VisitsUnreadable(w) == \E u \in {w} \cup Reachable(w) : mtime[u] = Unreadable

(* C13: when the scan of the Freshness Oracle fails for a workspace        *)
(* visited by the audit of a target, with sequential true or false,        *)
(* ProjectAuditor.audit never returns a ProjectReport, not even one of the *)
(* targets whose audits succeeded, and it ends by throwing; a workspace    *)
(* whose scan fails never has an entry in the catalog.                     *)
C13_NoReportNoEntry ==
  /\ (\E w \in Range(pendingAudits) : VisitsUnreadable(w) \/ Rejected(w)) => ~Returned
  /\ pc = "failed" => \E w \in Range(pendingAudits) : VisitsUnreadable(w) /\ Rejected(w)
  /\ \A u \in Units : mtime[u] = Unreadable => ~wasChecked(catalog, u)

C13_ScanFailureAborts ==
  /\ []C13_NoReportNoEntry
  /\ (\E w \in Range(pendingAudits) : VisitsUnreadable(w) \/ Rejected(w)) ~> (pc = "failed")

\* With sequential = false the audit of "a" resolved and its report was
\* kept; the audit of "b" was rejected, because the folder of its
\* dependency "c" cannot be read, and ProjectAuditor.audit threw.
C13_Witness ==
  /\ ~sequential /\ pc = "failed"
  /\ ScanFails("c") /\ DirectDependencies("b") = {"c"}
  /\ Resolved("a") /\ reports = <<"a">>
  /\ Rejected("b")

-----------------------------------------------------------------------------
\* The reports held by the dependencies Map of report n.
Children(w, n) == {Nodes(w)[n].dependencies[j].value : j \in 1..Len(Nodes(w)[n].dependencies)}

\* Report n belongs to the report tree of the audit of w: it is the root, or
\* the dependencies Map of a report of the tree holds it.
RECURSIVE InTree(_, _)
InTree(w, n) == n = <<>> \/ (InTree(w, Parent(n)) /\ n \in Children(w, Parent(n)))

\* The reports of the tree of w that are no cycle terminators.
Expanded(w) ==
  {n \in DOMAIN Nodes(w) : InTree(w, n) /\ Nodes(w)[n].loopsBackToParent # "true"}

\* The descriptors of workspace u that resolve to a workspace of the project.
Edges(u) == {k \in 1..Len(dependencies[u]) : dependencies[u][k] \in Units}

(* C14: in the report tree of a finished audit, the dependencies Map of    *)
(* every report that is no cycle terminator holds one report for each      *)
(* descriptor of its workspace that resolves to a workspace of the         *)
(* project: as many entries as there are such descriptors, each for its    *)
(* own descriptor.                                                         *)
C14_OneChildPerEdge ==
  \A w \in Units :
    Resolved(w) =>
      \A n \in Expanded(w) :
        /\ Len(Nodes(w)[n].dependencies) = Cardinality(Edges(Nodes(w)[n].workspace))
        /\ Children(w, n) = {Append(n, k) : k \in Edges(Nodes(w)[n].workspace)}

-----------------------------------------------------------------------------
\* The reports created for the descriptors of report n's workspace that are
\* no cycle terminators.
ExpandedChildren(w, n) ==
  {c \in {Append(n, k) : k \in Edges(Nodes(w)[n].workspace)} :
     Nodes(w)[c].loopsBackToParent # "true"}

(* C15: in a finished audit every report that is no cycle terminator, the  *)
(* root as well as a nested one, has dependenciesWereFresh = true exactly  *)
(* when every report created for one of its workspace's descriptors, cycle *)
(* terminators aside, ended with isFresh = true; so a nested report of a   *)
(* workspace whose own files changed and whose dependencies are all fresh  *)
(* has dependenciesWereFresh = true and filesWereFresh = false.            *)
C15_DependenciesWereFresh ==
  \A w \in Units :
    Resolved(w) =>
      \A n \in DOMAIN Nodes(w) :
        Nodes(w)[n].loopsBackToParent # "true" =>
          /\ Nodes(w)[n].dependenciesWereFresh =
               Bool(\A c \in ExpandedChildren(w, n) : Nodes(w)[c].isFresh = "true")
          /\ ( /\ n # <<>> /\ ~Verdict(Nodes(w)[n].workspace)
               /\ \A c \in ExpandedChildren(w, n) : Nodes(w)[c].isFresh = "true" )
             => /\ Nodes(w)[n].dependenciesWereFresh = "true"
                /\ Nodes(w)[n].filesWereFresh = "false"

-----------------------------------------------------------------------------
(* C16: once ProjectAuditor.audit has returned, every report that is no    *)
(* cycle terminator, the root of a target and every report created below   *)
(* it, has isFresh, dependenciesWereFresh and filesWereFresh set to        *)
(* booleans, and isFresh = (dependenciesWereFresh && filesWereFresh).      *)
C16_IsFreshIsConjunction ==
  Returned =>
    \A w \in Range(reports) :
      \A n \in DOMAIN Nodes(w) :
        Nodes(w)[n].loopsBackToParent # "true" =>
          /\ Nodes(w)[n].dependenciesWereFresh \in {"true", "false"}
          /\ Nodes(w)[n].filesWereFresh \in {"true", "false"}
          /\ Nodes(w)[n].isFresh =
               Bool(Nodes(w)[n].dependenciesWereFresh = "true" /\ Nodes(w)[n].filesWereFresh = "true")

\* A returned report tree of three levels: the root has fresh files and a
\* dependency that is not fresh, the reports of the tree below it have
\* files that are not fresh, and the root of another target is fresh.
C16_Witness ==
  /\ Returned /\ reports = <<"a", "b">>
  /\ \E n \in Expanded("a") :
       /\ Len(n) = 2 /\ InTree("a", Parent(n))
       /\ Nodes("a")[<<>>].filesWereFresh = "true" /\ Nodes("a")[<<>>].isFresh = "false"
       /\ Nodes("a")[Parent(n)].filesWereFresh = "false"
       /\ Nodes("a")[Parent(n)].dependenciesWereFresh = "false"
       /\ Nodes("a")[n].filesWereFresh = "false" /\ Nodes("a")[n].isFresh = "false"
  /\ Root("b").isFresh = "true"

-----------------------------------------------------------------------------
\* The policy of the report inspector, by its four rules, on report n: a
\* cycle terminator gives nothing; a fresh report gives nothing; a report
\* with dependenciesWereFresh = false gives its workspace and then what its
\* dependency reports give, in the order of the Map; any other report gives
\* its workspace.
RECURSIVE Policy(_, _)
RECURSIVE PolicyEach(_, _, _)
PolicyEach(nodes, m, j) ==
  IF j > Len(m) THEN <<>>
  ELSE Policy(nodes, m[j].value) \o PolicyEach(nodes, m, j + 1)

Policy(nodes, n) ==
  IF nodes[n].loopsBackToParent = "true" THEN <<>>
  ELSE IF nodes[n].isFresh = "true" THEN <<>>
  ELSE IF nodes[n].dependenciesWereFresh = "false"
    THEN <<nodes[n].workspace>> \o PolicyEach(nodes, nodes[n].dependencies, 1)
  ELSE <<nodes[n].workspace>>

\* The policy on the roots j, j + 1, ... of the ProjectReport, in its order.
RECURSIVE PolicyFrom(_)
PolicyFrom(j) ==
  IF j > Len(reports) THEN <<>>
  ELSE Policy(Nodes(reports[j]), <<>>) \o PolicyFrom(j + 1)

\* The reports of the tree of w that the inspector visits.
RECURSIVE Visited(_, _)
Visited(w, n) ==
  /\ InTree(w, n)
  /\ n # <<>> =>
       /\ Visited(w, Parent(n))
       /\ Nodes(w)[Parent(n)].loopsBackToParent # "true"
       /\ Nodes(w)[Parent(n)].isFresh # "true"
       /\ Nodes(w)[Parent(n)].dependenciesWereFresh # "true"

\* The visited reports of the tree of w that are no cycle terminators and
\* have isFresh = false.
VisitedNotFresh(w) ==
  {n \in DOMAIN Nodes(w) :
     Visited(w, n) /\ Nodes(w)[n].loopsBackToParent # "true" /\ Nodes(w)[n].isFresh = "false"}

RECURSIVE SumVisitedNotFresh(_)
SumVisitedNotFresh(j) ==
  IF j > Len(reports) THEN 0
  ELSE Cardinality(VisitedNotFresh(reports[j])) + SumVisitedNotFresh(j + 1)

(* C17: for every ProjectReport an audit produced, ReportInspector.unroll  *)
(* returns the sequence the four-rule policy gives when the roots are      *)
(* walked in the order of the ProjectReport and each tree in pre-order;    *)
(* each visited report that is no cycle terminator and has isFresh = false *)
(* contributes exactly one instruction, for its own workspace; and no      *)
(* report has isFresh = false while dependenciesWereFresh and              *)
(* filesWereFresh are both true.                                           *)
C17_UnrollIsPolicy ==
  pc = "unrolled" =>
    /\ instructions = PolicyFrom(1)
    /\ Len(instructions) = SumVisitedNotFresh(1)
    /\ \A w \in Range(reports) :
         /\ \A n \in VisitedNotFresh(w) : Emitted(Nodes(w)[n].workspace) # {}
         /\ \A n \in DOMAIN Nodes(w) :
              ~ /\ Nodes(w)[n].isFresh = "false"
                /\ Nodes(w)[n].dependenciesWereFresh = "true"
                /\ Nodes(w)[n].filesWereFresh = "true"

\* Two trees were unrolled.  In the tree of "a" the inspector went down two
\* levels, through reports with dependenciesWereFresh = false, and met a
\* cycle terminator; the root of "b" has fresh dependencies and changed
\* files.
C17_Witness ==
  /\ pc = "unrolled" /\ reports = <<"a", "b">>
  /\ instructions = <<"a", "c", "c", "b">>
  /\ Root("b").dependenciesWereFresh = "true" /\ Root("b").filesWereFresh = "false"
  /\ \E n \in DOMAIN Nodes("a") :
       Visited("a", n) /\ Len(n) = 3 /\ Nodes("a")[n].loopsBackToParent = "true"

-----------------------------------------------------------------------------
\* The audit of w waits for a scan, or was rejected while it waited.
Suspended(w) == audits[w].ctl \in {"scanning", "rejected"}

(* C18: whenever an audit waits, its path holds exactly the descriptors    *)
(* followed from the root report to the report being expanded, one active  *)
(* call per report on that branch, and the path is empty when the audit    *)
(* has returned; every audit has a path of its own.  So a report is a      *)
(* cycle terminator only when its descriptor lies on the branch that leads *)
(* to it: a descriptor followed on a sibling branch or by the audit of     *)
(* another target is followed again, and two descriptors that resolve to   *)
(* the same workspace on different branches are both expanded.             *)
C18_PathIsBranch ==
  \A w \in DOMAIN audits :
    /\ audits[w].ctl = "resolved" => audits[w].path = <<>> /\ audits[w].stack = <<>>
    /\ Suspended(w) =>
         \A n \in {TopFrame(audits[w]).report} :
           /\ audits[w].path = Branch(w, n)
           /\ Len(audits[w].stack) = Len(n) + 1
           /\ \A j \in 1..Len(audits[w].stack) :
                audits[w].stack[j].report = SubSeq(n, 1, j - 1)
    /\ \A n \in DOMAIN Nodes(w) \ {<<>>} :
         \A onBranch \in {Includes(Branch(w, Parent(n)), Via(w, n))} :
           /\ Nodes(w)[n].loopsBackToParent = "true" => onBranch
           /\ ~onBranch =>
                /\ Nodes(w)[n].loopsBackToParent = "false"
                /\ Resolved(w) => Nodes(w)[n].filesWereFresh \in {"true", "false"}

\* Two concurrent audits have returned; "a" depends on "b" and "c", and "b"
\* on "c".  In the tree of "a" the reports of "c" below "b" and below the
\* root, made for different descriptors, are both expanded, and the
\* descriptor of "b" for "c", followed by the audit of "a", is followed by
\* the audit of "b" as well.
C18_Witness ==
  /\ ~sequential /\ Resolved("a") /\ Resolved("b")
  /\ dependencies["a"] = <<External, "b", "c">> /\ dependencies["b"] = <<"c">>
  /\ Via("a", <<2, 1>>) = Descriptor("b", 1) /\ Via("a", <<3>>) = Descriptor("a", 3)
  /\ Via("b", <<1>>) = Descriptor("b", 1)
  /\ \A n \in {<<2, 1>>, <<3>>} :
       /\ Nodes("a")[n].workspace = "c"
       /\ Nodes("a")[n].loopsBackToParent = "false"
       /\ Nodes("a")[n].filesWereFresh \in {"true", "false"}
  /\ Nodes("b")[<<1>>].loopsBackToParent = "false"
  /\ Nodes("b")[<<1>>].filesWereFresh \in {"true", "false"}

-----------------------------------------------------------------------------
\* The cycle terminators among the reports of the audit of w.
Terminators(w) == {n \in DOMAIN Nodes(w) : Nodes(w)[n].loopsBackToParent = "true"}

(* C19: a report with loopsBackToParent = true has isFresh,                *)
(* dependenciesWereFresh, filesWereFresh and fileFreshnessFromCache unset, *)
(* an empty dependencies Map, and no report was created below it.  Making  *)
(* it asks the catalog nothing: a finished audit has called                *)
(* freshnessCatalog.isFresh once for its root and twice for every other    *)
(* report that is no cycle terminator.  And it leaves the                  *)
(* dependenciesWereFresh of the report above it alone: that field is       *)
(* decided by the reports below that are no cycle terminators (and, in a   *)
(* nested report, by its own files), whatever the workspaces of the cycle  *)
(* terminators are.                                                        *)
C19_TerminatorIsInert ==
  \A w \in DOMAIN audits :
    /\ \A n \in Terminators(w) :
         /\ Nodes(w)[n].isFresh = Undefined
         /\ Nodes(w)[n].dependenciesWereFresh = Undefined
         /\ Nodes(w)[n].filesWereFresh = Undefined
         /\ Nodes(w)[n].fileFreshnessFromCache = Undefined
         /\ Nodes(w)[n].dependencies = <<>>
         /\ \A m \in DOMAIN Nodes(w) : m = <<>> \/ Parent(m) # n
    /\ Resolved(w) =>
         /\ audits[w].queries =
              1 + 2 * Cardinality(DOMAIN Nodes(w) \ (Terminators(w) \cup {<<>>}))
         /\ \A n \in DOMAIN Nodes(w) \ Terminators(w) :
              Nodes(w)[n].dependenciesWereFresh =
                Bool(/\ n = <<>> \/ Nodes(w)[n].filesWereFresh = "true"
                     /\ \A c \in ExpandedChildren(w, n) : Nodes(w)[c].isFresh = "true")

\* The audit of "a" has returned, with "a" -> "b" -> "a" and changed files
\* in "b" only: the report of "a" below "b" has one report below it, the
\* cycle terminator for the changed "b", and dependenciesWereFresh = true.
C19_Witness ==
  /\ Resolved("a") /\ Verdict("a") /\ ~Verdict("b")
  /\ dependencies["a"] = <<External, "b">> /\ dependencies["b"] = <<"a">>
  /\ Terminators("a") = {<<2, 1, 2>>}
  /\ Nodes("a")[<<2, 1, 2>>].workspace = "b"
  /\ Nodes("a")[<<2, 1>>].dependenciesWereFresh = "true"
  /\ audits["a"].queries = 5

-----------------------------------------------------------------------------
\* The reports on the branch from the root report down to report n, n included.
BranchReports(n) == {SubSeq(n, 1, j) : j \in 0..Len(n)}

\* The reports on the branch down to n that were expanded for workspace u.
ExpandedOnBranch(w, n, u) ==
  {m \in BranchReports(n) :
     Nodes(w)[m].workspace = u /\ Nodes(w)[m].loopsBackToParent # "true"}

\* The descriptors of the project that resolve to workspace u.
EdgesInto(u) ==
  UNION {{Descriptor(v, k) : k \in {j \in 1..Len(dependencies[v]) : dependencies[v][j] = u}} :
           v \in Units}

====
